---- MODULE Spec2Model ----
(***************************************************************************)
(* Model of cron-parser (src/src/lib.rs): the field parser `parse_field`   *)
(* and the occurrence engine `parse`, which walks a candidate civil time   *)
(* forward until the five cron fields accept it and then resolves it in    *)
(* the caller's timezone.                                                  *)
(*                                                                         *)
(* Time is counted in seconds since 1970-01-01T00:00:00Z, as chrono's      *)
(* DateTime<Utc> does.  Strings are sequences of one-character strings.    *)
(***************************************************************************)
EXTENDS Integers, Sequences, FiniteSets, TLC

(***************************************************************************)
(* Calendar arithmetic of the date-time library (proleptic Gregorian).     *)
(***************************************************************************)
SecsPerMinute == 60
SecsPerHour == 3600
SecsPerDay == 86400

IsLeap(y) == (y % 4 = 0 /\ y % 100 # 0) \/ y % 400 = 0

DaysInMonth(y, m) ==
    IF m = 2 THEN (IF IsLeap(y) THEN 29 ELSE 28)
    ELSE IF m \in {4, 6, 9, 11} THEN 30 ELSE 31

\* Days from 1970-01-01 to the civil date y-m-d.
DaysFromCivil(y, m, d) ==
    LET yy  == IF m <= 2 THEN y - 1 ELSE y
        era == yy \div 400
        yoe == yy - era * 400
        mp  == IF m > 2 THEN m - 3 ELSE m + 9
        doy == (153 * mp + 2) \div 5 + d - 1
        doe == yoe * 365 + yoe \div 4 - yoe \div 100 + doy
    IN  era * 146097 + doe - 719468

\* The civil date of day number z (days since 1970-01-01).
CivilFromDays(z) ==
    LET zz  == z + 719468
        era == zz \div 146097
        doe == zz - era * 146097
        yoe == (doe - doe \div 1460 + doe \div 36524 - doe \div 146096) \div 365
        doy == doe - (365 * yoe + yoe \div 4 - yoe \div 100)
        mp  == (5 * doy + 2) \div 153
        d   == doy - (153 * mp + 2) \div 5 + 1
        m   == IF mp < 10 THEN mp + 3 ELSE mp - 9
        y   == yoe + era * 400 + (IF m <= 2 THEN 1 ELSE 0)
    IN  [year |-> y, month |-> m, day |-> d]

\* Accessors of a DateTime<Utc> (Datelike / Timelike).
YearOf(t)   == CivilFromDays(t \div SecsPerDay).year
MonthOf(t)  == CivilFromDays(t \div SecsPerDay).month
DayOf(t)    == CivilFromDays(t \div SecsPerDay).day
HourOf(t)   == (t % SecsPerDay) \div SecsPerHour
MinuteOf(t) == (t % SecsPerHour) \div SecsPerMinute
SecondOf(t) == t % SecsPerMinute
\* weekday().num_days_from_sunday(); 1970-01-01 was a Thursday.
WeekdayOf(t) == ((t \div SecsPerDay) + 4) % 7

(***************************************************************************)
(* make_utc_datetime: Utc.with_ymd_and_hms, an error for a date or time    *)
(* that does not exist.  UTC has no ambiguous civil time.                  *)
(***************************************************************************)
Ok(v) == [ok |-> TRUE, v |-> v]
Err(e) == [ok |-> FALSE, err |-> e]

make_utc_datetime(year, month, day, hour, minute, second) ==
    IF /\ month \in 1..12
       /\ day >= 1 /\ day <= DaysInMonth(year, month)
       /\ hour \in 0..23 /\ minute \in 0..59 /\ second \in 0..59
    THEN Ok(DaysFromCivil(year, month, day) * SecsPerDay
            + hour * SecsPerHour + minute * SecsPerMinute + second)
    ELSE Err("InvalidTimezone")

(***************************************************************************)
(* Timezones (the TimeZone collaborator).  A zone has a standard offset    *)
(* and, when it observes daylight saving time, a rule: the n-th Sunday of  *)
(* a month and the local hour at which the clock moves.  Offsets are in    *)
(* seconds east of UTC.                                                    *)
(*   UTC      no transitions                                               *)
(*   Pacific  US/Pacific: 02:00 -> 03:00 on the 2nd Sunday of March,       *)
(*            02:00 -> 01:00 on the 1st Sunday of November                 *)
(*   Havana   America/Havana: 00:00 -> 01:00 on the 2nd Sunday of March,   *)
(*            01:00 -> 00:00 on the 1st Sunday of November                 *)
(***************************************************************************)
ZoneRule(tz) ==
    CASE tz = "UTC" ->
           [std |-> 0, dst |-> 0, hasDst |-> FALSE,
            startMonth |-> 1, startNth |-> 1, startHour |-> 0,
            endMonth |-> 1, endNth |-> 1, endHour |-> 0]
      [] tz = "Pacific" ->
           [std |-> -8 * SecsPerHour, dst |-> -7 * SecsPerHour, hasDst |-> TRUE,
            startMonth |-> 3, startNth |-> 2, startHour |-> 2,
            endMonth |-> 11, endNth |-> 1, endHour |-> 2]
      [] tz = "Havana" ->
           [std |-> -5 * SecsPerHour, dst |-> -4 * SecsPerHour, hasDst |-> TRUE,
            startMonth |-> 3, startNth |-> 2, startHour |-> 0,
            endMonth |-> 11, endNth |-> 1, endHour |-> 1]

\* Day of the month of the n-th Sunday of month m of year y.
NthSunday(y, m, n) ==
    LET w == WeekdayOf(DaysFromCivil(y, m, 1) * SecsPerDay)
    IN  1 + ((7 - w) % 7) + 7 * (n - 1)

\* The instant at which daylight saving time starts (local standard time
\* startHour) and ends (local daylight time endHour) in year y.
DstStart(tz, y) ==
    LET r == ZoneRule(tz)
    IN  DaysFromCivil(y, r.startMonth, NthSunday(y, r.startMonth, r.startNth)) * SecsPerDay
        + r.startHour * SecsPerHour - r.std

DstEnd(tz, y) ==
    LET r == ZoneRule(tz)
    IN  DaysFromCivil(y, r.endMonth, NthSunday(y, r.endMonth, r.endNth)) * SecsPerDay
        + r.endHour * SecsPerHour - r.dst

\* offset_from_utc_datetime: the zone's UTC offset at instant u.
OffsetAt(tz, u) ==
    LET r == ZoneRule(tz)
        y == YearOf(u)
    IN  IF r.hasDst /\ DstStart(tz, y) <= u /\ u < DstEnd(tz, y) THEN r.dst ELSE r.std

\* DateTime<TZ>::naive_local: the civil time of instant u in zone tz, as the
\* instant with that reading in UTC.
naive_local(u, tz) == u + OffsetAt(tz, u)

\* TimeZone::from_local_datetime: the instants of zone tz whose civil time is
\* `naive`: none (skipped time), one, or two (repeated time).
LocalInstants(tz, naive) ==
    LET r == ZoneRule(tz)
    IN  {u \in {naive - r.std, naive - r.dst} : naive_local(u, tz) = naive}

SetMin(S) == CHOOSE x \in S : \A y \in S : x <= y
SetMax(S) == CHOOSE x \in S : \A y \in S : y <= x

from_local_datetime(tz, naive) ==
    LET S == LocalInstants(tz, naive)
    IN  IF S = {} THEN [kind |-> "None"]
        ELSE IF Cardinality(S) = 1
             THEN [kind |-> "Single", dt |-> SetMin(S)]
             ELSE [kind |-> "Ambiguous", earlier |-> SetMin(S), later |-> SetMax(S)]

(***************************************************************************)
(* Strings: a string is a sequence of one-character strings.               *)
(***************************************************************************)
Chars(s) == [i \in 1..Len(s) |-> SubSeq(s, i, i)]

Whitespace == {" ", "\t", "\n"}
Digits == <<"0", "1", "2", "3", "4", "5", "6", "7", "8", "9">>
IsDigit(c) == \E i \in 1..10 : Digits[i] = c
DigitValue(c) == (CHOOSE i \in 1..10 : Digits[i] = c) - 1

Lower == Chars("abcdefghijklmnopqrstuvwxyz")
Upper == Chars("ABCDEFGHIJKLMNOPQRSTUVWXYZ")
\* The two letters outside ASCII whose upper case is an ASCII letter: the long
\* s (U+017F, upper case "S") and the dotless i (U+0131, upper case "I").  A
\* character outside ASCII is written by its code point.
LongS == "U+017F"
DotlessI == "U+0131"

\* char::to_uppercase on the ASCII letters and on these two; no other
\* character has an upper case made of the letters of a weekday name.
UpperChar(c) ==
    IF \E i \in 1..26 : Lower[i] = c
    THEN Upper[CHOOSE i \in 1..26 : Lower[i] = c]
    ELSE IF c = LongS THEN "S"
    ELSE IF c = DotlessI THEN "I"
    ELSE c
to_uppercase(s) == [i \in 1..Len(s) |-> UpperChar(s[i])]

contains(s, c) == \E i \in 1..Len(s) : s[i] = c
starts_with(s, p) == Len(s) >= Len(p) /\ SubSeq(s, 1, Len(p)) = p

\* str::trim_start_matches: every repetition of the prefix p is removed.
RECURSIVE trim_start_matches(_, _)
trim_start_matches(s, p) ==
    IF Len(p) > 0 /\ starts_with(s, p)
    THEN trim_start_matches(SubSeq(s, Len(p) + 1, Len(s)), p)
    ELSE s

\* The k-th smallest member of a set of numbers.
Nth(S, k) == CHOOSE x \in S : Cardinality({y \in S : y < x}) = k - 1

\* The pieces of s cut at the positions `cuts` (in increasing order).
Pieces(s, cuts) ==
    [k \in 1..(Cardinality(cuts) + 1) |->
        SubSeq(s,
               IF k = 1 THEN 1 ELSE Nth(cuts, k - 1) + 1,
               IF k = Cardinality(cuts) + 1 THEN Len(s) ELSE Nth(cuts, k) - 1)]

\* str::split(c): the pieces between occurrences of c, empty pieces included.
split(s, c) == Pieces(s, {i \in 1..Len(s) : s[i] = c})

\* Iterator::filter(|s| !s.is_empty())
NonEmptyAt(ss, keep) == [k \in 1..Cardinality(keep) |-> ss[Nth(keep, k)]]
NonEmpty(ss) == NonEmptyAt(ss, {k \in 1..Len(ss) : ss[k] # <<>>})

\* str::split_whitespace: the non-empty pieces between runs of whitespace.
split_whitespace(s) == NonEmpty(Pieces(s, {i \in 1..Len(s) : s[i] \in Whitespace}))

(***************************************************************************)
(* str::parse::<u32>: an optional "+", then one or more decimal digits,    *)
(* the value at most 2^32 - 1.  A value of ten significant digits that     *)
(* fits u32 is reported as BigU32 when it exceeds the integers of the      *)
(* checker; the code only compares a parsed value with bounds below 60.    *)
(***************************************************************************)
U32MaxDigits == <<4, 2, 9, 4, 9, 6, 7, 2, 9, 5>>
BigU32Digits == <<2, 1, 4, 7, 4, 8, 3, 6, 4, 7>>
BigU32 == 2147483647

\* The number of leading zeros of ds that can be dropped (one digit is kept).
LeadingZeros(ds) ==
    Cardinality({k \in 1..(Len(ds) - 1) : \A j \in 1..k : ds[j] = 0})

StripZeros(ds) == SubSeq(ds, LeadingZeros(ds) + 1, Len(ds))

RECURSIVE DigitsValue(_, _)
DigitsValue(ds, n) ==
    IF n = 0 THEN 0 ELSE DigitsValue(ds, n - 1) * 10 + ds[n]

\* ds <= es, for digit sequences of the same length.
DigitsLeq(ds, es) ==
    \/ ds = es
    \/ \E k \in 1..Len(ds) :
          /\ ds[k] < es[k]
          /\ \A j \in 1..(k - 1) : ds[j] = es[j]

\* The value of a non-empty sequence of significant digits.
U32OfDigits(ds) ==
    IF Len(ds) <= 9 THEN Ok(DigitsValue(ds, Len(ds)))
    ELSE IF Len(ds) = 10 /\ DigitsLeq(ds, BigU32Digits) THEN Ok(DigitsValue(ds, 10))
    ELSE IF Len(ds) = 10 /\ DigitsLeq(ds, U32MaxDigits) THEN Ok(BigU32)
    ELSE Err("ParseIntError")

\* The value of a string without sign.
U32OfBody(body) ==
    IF body = <<>> \/ \E i \in 1..Len(body) : ~IsDigit(body[i])
    THEN Err("ParseIntError")
    ELSE U32OfDigits(StripZeros([i \in 1..Len(body) |-> DigitValue(body[i])]))

parse_u32(s) ==
    U32OfBody(IF Len(s) > 0 /\ s[1] = "+" THEN Tail(s) ELSE s)

(***************************************************************************)
(* Dow::from_str: the seven three-letter weekday names, in any case.       *)
(***************************************************************************)
DowNames == <<Chars("SUN"), Chars("MON"), Chars("TUE"), Chars("WED"),
              Chars("THU"), Chars("FRI"), Chars("SAT")>>

\* The match on the upper-cased text.
DowOfUpper(u) ==
    IF \E i \in 1..7 : DowNames[i] = u
    THEN Ok((CHOOSE i \in 1..7 : DowNames[i] = u) - 1)
    ELSE Err("NotADow")

Dow_from_str(s) == DowOfUpper(to_uppercase(s))

\* `if v < min || v > max { return Err(InvalidValue) }` on a parsed number.
InBounds(v, min, max) ==
    IF ~v.ok THEN v
    ELSE IF v.v < min \/ v.v > max THEN Err("InvalidValue")
    ELSE Ok(v.v)

\* `if let Ok(dow) = Dow::from_str(value) { Ok(dow as u32) } else { ... }`
DowOrNumber(dow, value, min, max) ==
    IF dow.ok THEN Ok(dow.v) ELSE InBounds(parse_u32(value), min, max)

\* parse_cron_value: a weekday name as its number, else a number in [min, max].
parse_cron_value(value, min, max) ==
    DowOrNumber(Dow_from_str(value), value, min, max)

\* (a..=b).step_by(step)
StepBy(a, b, step) == {i \in a..b : (i - a) % step = 0}

(***************************************************************************)
(* parse_field: the set of values of one cron field within [min, max].     *)
(* ParseSegment is one turn of the loop over the comma-separated segments. *)
(***************************************************************************)
\* `start..=end` by `step`, once both ends are parsed.
RangeValues(start, end, step) ==
    IF ~start.ok THEN start
    ELSE IF ~end.ok THEN end
    ELSE IF start.v > end.v THEN Err("InvalidRange")
    ELSE Ok(StepBy(start.v, end.v, step))

\* `let [start_str, end_str] = ... .split('-') else { return Err(InvalidRange) }`
RangeOfParts(parts, step, min, max) ==
    IF Len(parts) # 2 THEN Err("InvalidRange")
    ELSE RangeValues(parse_cron_value(parts[1], min, max),
                     parse_cron_value(parts[2], min, max), step)

\* `start..=max` by `step`.
FromStart(start, step, max) ==
    IF ~start.ok THEN start ELSE Ok(StepBy(start.v, max, step))

\* `if step == 0 || step > max { return Err(InvalidValue) }`
StepOk(step, max) ==
    IF ~step.ok THEN step
    ELSE IF step.v = 0 \/ step.v > max THEN Err("InvalidValue")
    ELSE step

\* The `*/N` arm, its step checked.
StarStep(step, min, max) ==
    IF ~step.ok THEN step ELSE Ok(StepBy(min, max, step.v))

\* The range part of the `range/step` arm, its step checked.
StepRange(range_part, step, min, max) ==
    IF ~step.ok THEN step
    ELSE IF contains(range_part, "-")
    THEN RangeOfParts(split(range_part, "-"), step.v, min, max)
    ELSE FromStart(parse_cron_value(range_part, min, max), step.v, max)

\* `let [range_part, step_part] = ... .split('/') else { return Err(InvalidRange) }`
StepOfParts(parts, min, max) ==
    IF Len(parts) # 2 THEN Err("InvalidRange")
    ELSE StepRange(parts[1], StepOk(parse_u32(parts[2]), max), min, max)

\* The last arm: a number or a weekday name.
SingleValue(value) == IF ~value.ok THEN value ELSE Ok({value.v})

ParseSegment(f, min, max) ==
    IF f = <<"*">> THEN Ok(min..max)
    ELSE IF starts_with(f, <<"*", "/">>)
    THEN StarStep(StepOk(parse_u32(trim_start_matches(f, <<"*", "/">>)), max), min, max)
    ELSE IF contains(f, "/") THEN StepOfParts(split(f, "/"), min, max)
    ELSE IF contains(f, "-") THEN RangeOfParts(split(f, "-"), 1, min, max)
    ELSE SingleValue(parse_cron_value(f, min, max))

\* The loop over the segments: the union of their values, or the first error.
SegmentsValues(rs) ==
    IF \E k \in 1..Len(rs) : ~rs[k].ok
    THEN rs[CHOOSE k \in 1..Len(rs) : ~rs[k].ok /\ \A j \in 1..(k - 1) : rs[j].ok]
    ELSE Ok(UNION {rs[k].v : k \in 1..Len(rs)})

ParseSegments(segs, min, max) ==
    SegmentsValues([k \in 1..Len(segs) |-> ParseSegment(segs[k], min, max)])

parse_field(field, min, max) ==
    ParseSegments(NonEmpty(split(field, ",")), min, max)

(***************************************************************************)
(* The inputs of the model: cron expressions and reference instants.       *)
(***************************************************************************)
\* The reference instants of zone tz that read the given civil time (both
\* passes of a repeated hour, none for a skipped time).
At(tz, y, mo, d, h, mi, sec) ==
    {[inst |-> u, tz |-> tz] :
        u \in LocalInstants(tz, make_utc_datetime(y, mo, d, h, mi, sec).v)}

Zones == {"UTC", "Pacific", "Havana"}

\* Expressions whose next occurrence is near the reference.
NearCrons ==
    { Chars(c) : c \in {
        "* * * * *",
        "*/5 * * * *",
        "0 23 */2 * *",
        "30 2 * * *",
        "*/15 * * * *",
        "* * * * 0",
        "0 0 * * Mon-Fri",
        "0 5,17 * * Wed",
        "15 0 * * 0",
        "*  *  *  *  *",
        "\t*/5   * * *\t* " } }

\* Expressions whose next occurrence is years away, or never comes.
FarCrons ==
    { Chars(c) : c \in {
        "0 0 29 2 6",
        "0 0 29 2 0",
        "0 0 29 2 *",
        "0 0 29 2 4",
        "0 0 30 2 *",
        "0 2 8-14 3 0",
        "* * 30 * *",
        "* * 29 2 *" } }

\* Expressions with a wrong number of fields or a malformed field.
BadCrons ==
    { Chars(c) : c \in {
        "*/5 * * *",
        "* * * * * *",
        "",
        "60 * *",
        "61 25 * * * * *",
        "60 * * * *",
        "* 24 * * *",
        "* * 0 * *",
        "* * * 13 *",
        "* * * * 7",
        "0 0 * * */Wed",
        "a b c 13 e",
        "x 25 * * *",
        "60 * 8-5 * x",
        "* * x 2 *",
        "60 * 30 2 *" } }

\* An expression whose only occurrence within the horizon is at 01:30 on the
\* day the clock of US/Pacific skips 02:00-03:00 (Sunday 2023-03-12; March 11
\* or 12 is next a Sunday in 2028), asked on the day before.
GapCrons == { Chars("30 1,2 11-12 3 0") }
GapRefs == At("Pacific", 2023, 3, 11, 1, 45, 0)

Crons == NearCrons \cup FarCrons \cup BadCrons \cup GapCrons

NearRefs ==
    UNION {
        At("UTC", 2019, 11, 5, 15, 56, 35),
        At("UTC", 2019, 11, 7, 18, 28, 12),
        At("UTC", 2019, 11, 8, 19, 4, 24),
        At("UTC", 2020, 12, 31, 23, 59, 30),
        At("UTC", 2024, 3, 10, 1, 30, 0),
        At("Pacific", 2019, 11, 7, 10, 28, 12),
        At("Pacific", 2024, 3, 10, 1, 59, 30),
        At("Pacific", 2024, 11, 3, 0, 59, 59),
        At("Pacific", 2024, 11, 3, 1, 30, 0),
        At("Havana", 2024, 3, 9, 23, 59, 10),
        At("Havana", 2024, 11, 3, 0, 30, 0) }

FarRefs ==
    UNION {
        At("UTC", 2019, 11, 7, 18, 28, 12),
        At("UTC", 2020, 12, 31, 23, 59, 30),
        At("UTC", 2020, 3, 1, 0, 0, 0),
        At("UTC", 2021, 1, 31, 10, 0, 0),
        At("Pacific", 2024, 3, 10, 1, 59, 30) }

BadRefs ==
    UNION {
        At("UTC", 2019, 11, 5, 15, 56, 35),
        At("Pacific", 2024, 11, 3, 1, 30, 0) }

Refs == NearRefs \cup FarRefs \cup BadRefs \cup GapRefs

\* The calls parse(cron, dt) the model starts from.
Cases ==
    (NearCrons \X NearRefs) \cup (FarCrons \X FarRefs) \cup (BadCrons \X BadRefs)
        \cup (GapCrons \X GapRefs)

\* The number of calls of parse a caller chains.
MaxCalls == 2

(***************************************************************************)
(* State.  One call of parse(cron, dt) at a time; pc is its position.      *)
(***************************************************************************)
VARIABLES
    cron,       \* the expression
    dt,         \* the reference instant, with its zone
    pc,         \* "call", "loop", "dom", "hour", "minute", "dow", "resolve", "done"
    fields,     \* the fields of cron
    next,       \* the candidate, a DateTime<Utc> holding a civil time
    result,     \* the value returned
    skipped,    \* the first candidate of this call found not to exist in the zone
    calls,      \* the number of the call
    link,       \* how the caller made this call: "first", "iterate", "rezone"
    prev,       \* the reference and the result of the previous call
    field,      \* parse_field: the text of the field
    fmin,       \* parse_field: its parameter min
    fmax,       \* parse_field: its parameter max
    segments,   \* parse_field: the segments of `fields` not yet visited
    values,     \* parse_field: the set built so far
    answer,     \* parse_field: the value returned
    fpc,        \* parse_field: "call", "loop", "done" ("idle": no call)
    fcalls,     \* the number of the call of parse_field
    flink,      \* how the caller made it: "first", "reorder", "recase"
    fprev       \* the field and the answer of the previous call of parse_field

\* The variables of a call of parse, and those of a call of parse_field.
pvars == <<cron, dt, pc, fields, next, result, skipped, calls, link, prev>>
fvars == <<field, fmin, fmax, segments, values, answer, fpc, fcalls, flink, fprev>>
vars == <<pvars, fvars>>

NoTime == -1
NoResult == [ok |-> FALSE, err |-> "pending"]
NoPrev == [dt |-> [inst |-> NoTime, tz |-> "UTC"], result |-> NoResult]
NoFieldPrev == [field |-> <<>>, answer |-> NoResult]

\* No call of parse_field is under way.
FieldIdle ==
    /\ field = <<>>
    /\ fmin = 0
    /\ fmax = 0
    /\ segments = <<>>
    /\ values = {}
    /\ answer = NoResult
    /\ fpc = "idle"
    /\ fcalls = 0
    /\ flink = "first"
    /\ fprev = NoFieldPrev

Init ==
    /\ FieldIdle
    /\ \E c \in Cases : cron = c[1] /\ dt = c[2]
    /\ pc = "call"
    /\ fields = <<>>
    /\ next = NoTime
    /\ result = NoResult
    /\ skipped = NoTime
    /\ calls = 1
    /\ link = "first"
    /\ prev = NoPrev

minute_str == fields[1]
hour_str == fields[2]
day_of_month_str == fields[3]
month_str == fields[4]
day_of_week_str == fields[5]

\* The search horizon, in years beyond the reference's civil year.
HorizonYears == 4

Return(r) ==
    /\ result' = r
    /\ pc' = "done"

\* `next = make_utc_datetime(...)?; continue`
Continue(r) ==
    IF r.ok
    THEN /\ next' = r.v
         /\ pc' = "loop"
         /\ UNCHANGED result
    ELSE /\ Return(r)
         /\ UNCHANGED next

Frame == UNCHANGED <<cron, dt, fields, skipped, calls, link, prev, fvars>>

(***************************************************************************)
(* parse, lines 128-153: the field count and the first candidate.          *)
(***************************************************************************)
\* Mutants of StartCandidate: the minute is not added; the reference's UTC
\* reading is taken for its civil time.
StartCandidateNoStep(d) ==
    LET l == naive_local(d.inst, d.tz)
    IN  make_utc_datetime(YearOf(l), MonthOf(l), DayOf(l), HourOf(l), MinuteOf(l), 0)

StartCandidateUtc(d) ==
    LET l == d.inst + SecsPerMinute
    IN  make_utc_datetime(YearOf(l), MonthOf(l), DayOf(l), HourOf(l), MinuteOf(l), 0)

\* The candidate the search starts from: the reference's civil time plus one
\* minute, the seconds set to zero.
StartCandidate(d) ==
    LET l == from_local_datetime("UTC", naive_local(d.inst, d.tz))
        first == IF l.kind = "Single" THEN Ok(l.dt + SecsPerMinute)
                 ELSE IF l.kind = "Ambiguous" THEN Ok(l.earlier + SecsPerMinute)
                 ELSE Err("InvalidTimezone")
    IN  IF ~first.ok THEN first
        ELSE make_utc_datetime(YearOf(first.v), MonthOf(first.v), DayOf(first.v),
                               HourOf(first.v), MinuteOf(first.v), 0)

\* Mutant of FieldCountOk: extra fields are ignored.
FieldCountAtLeast(fs) == Len(fs) >= 5

\* `let [minute_str, ...] = fields.as_slice() else { return Err(InvalidCron) }`
FieldCountOk(fs) == Len(fs) = 5

\* `return Err(ParseError::InvalidCron)` of the field count, and that of the
\* horizon.
WrongFieldCount == Err("InvalidCron")
HorizonError == Err("InvalidCron")

RejectFieldCount ==
    /\ pc = "call"
    /\ ~FieldCountOk(split_whitespace(cron))
    /\ fields' = split_whitespace(cron)
    /\ Return(WrongFieldCount)
    /\ UNCHANGED <<cron, dt, next, skipped, calls, link, prev, fvars>>

Start ==
    /\ pc = "call"
    /\ FieldCountOk(split_whitespace(cron))
    /\ fields' = split_whitespace(cron)
    /\ Continue(StartCandidate(dt))
    /\ UNCHANGED <<cron, dt, skipped, calls, link, prev, fvars>>

(***************************************************************************)
(* parse, lines 155-221: the search loop.  pc = "loop" is the top of the   *)
(* loop; every advance of the candidate returns there.                     *)
(***************************************************************************)
\* Mutant of HorizonPassed: the bound is off by one.
HorizonPassedLate(n, d) ==
    YearOf(n) - YearOf(naive_local(d.inst, d.tz)) > HorizonYears + 1

\* `next.year() - dt.year() > 4`
HorizonPassed(n, d) == YearOf(n) - YearOf(naive_local(d.inst, d.tz)) > HorizonYears

\* The first instant of the month after n's.
NextMonthStart(n) ==
    make_utc_datetime(IF MonthOf(n) = 12 THEN YearOf(n) + 1 ELSE YearOf(n),
                      IF MonthOf(n) = 12 THEN 1 ELSE MonthOf(n) + 1,
                      1, 0, 0, 0)

\* `next += Duration::days(1)`, then midnight of that day.
NextDayStart(n) ==
    LET t == n + SecsPerDay
    IN  make_utc_datetime(YearOf(t), MonthOf(t), DayOf(t), 0, 0, 0)

\* `next += Duration::hours(1)`, then minute zero of that hour.
NextHourStart(n) ==
    LET t == n + SecsPerHour
    IN  make_utc_datetime(YearOf(t), MonthOf(t), DayOf(t), HourOf(t), 0, 0)

\* `next += Duration::minutes(1)` after a minute the field rejects.
NextMinute(n) == n + SecsPerMinute

\* Mutant of NextWeekday: the candidate is not moved.
NextWeekdaySame(n) == n

\* `next += Duration::days(1)` after a weekday the field rejects.
NextWeekday(n) == n + SecsPerDay

\* Mutant of MonthMatch: the day of the month is not tested.
MonthMatchThenHour ==
    /\ pc = "loop"
    /\ ~HorizonPassed(next, dt)
    /\ parse_field(month_str, 1, 12).ok
    /\ MonthOf(next) \in parse_field(month_str, 1, 12).v
    /\ pc' = "hour"
    /\ UNCHANGED <<next, result>>
    /\ UNCHANGED <<cron, dt, fields, skipped, calls, link, prev, fvars>>

\* Mutant of AfterGap: the rest of the day of the transition is skipped.
AfterGapNextDay(n) == n + SecsPerDay

\* `next += Duration::minutes(1)` after a civil time the zone skips.
AfterGap(n) == n + SecsPerMinute

\* The five tests of the candidate, `set.contains(&next.field())`.
MonthAccepts(month, n) == MonthOf(n) \in month.v
DomAccepts(do_m, n) == DayOf(n) \in do_m.v
HourAccepts(hour, n) == HourOf(n) \in hour.v
MinuteAccepts(minute, n) == MinuteOf(n) \in minute.v
\* Mutant of DowAccepts: the weekday is counted from Monday.
DowAcceptsFromMonday(do_w, n) == ((WeekdayOf(n) + 6) % 7) \in do_w.v
DowAccepts(do_w, n) == WeekdayOf(n) \in do_w.v

HorizonExceeded ==
    /\ pc = "loop"
    /\ HorizonPassed(next, dt)
    /\ Return(HorizonError)
    /\ UNCHANGED next
    /\ Frame

MonthError ==
    /\ pc = "loop"
    /\ ~HorizonPassed(next, dt)
    /\ ~parse_field(month_str, 1, 12).ok
    /\ Return(parse_field(month_str, 1, 12))
    /\ UNCHANGED next
    /\ Frame

MonthAdvance ==
    /\ pc = "loop"
    /\ ~HorizonPassed(next, dt)
    /\ LET month == parse_field(month_str, 1, 12)
       IN  /\ month.ok
           /\ ~MonthAccepts(month, next)
    /\ Continue(NextMonthStart(next))
    /\ Frame

MonthMatch ==
    /\ pc = "loop"
    /\ ~HorizonPassed(next, dt)
    /\ LET month == parse_field(month_str, 1, 12)
       IN  /\ month.ok
           /\ MonthAccepts(month, next)
    /\ pc' = "dom"
    /\ UNCHANGED <<next, result>>
    /\ Frame

DomError ==
    /\ pc = "dom"
    /\ ~parse_field(day_of_month_str, 1, 31).ok
    /\ Return(parse_field(day_of_month_str, 1, 31))
    /\ UNCHANGED next
    /\ Frame

DomAdvance ==
    /\ pc = "dom"
    /\ LET do_m == parse_field(day_of_month_str, 1, 31)
       IN  /\ do_m.ok
           /\ ~DomAccepts(do_m, next)
    /\ Continue(NextDayStart(next))
    /\ Frame

DomMatch ==
    /\ pc = "dom"
    /\ LET do_m == parse_field(day_of_month_str, 1, 31)
       IN  /\ do_m.ok
           /\ DomAccepts(do_m, next)
    /\ pc' = "hour"
    /\ UNCHANGED <<next, result>>
    /\ Frame

HourError ==
    /\ pc = "hour"
    /\ ~parse_field(hour_str, 0, 23).ok
    /\ Return(parse_field(hour_str, 0, 23))
    /\ UNCHANGED next
    /\ Frame

HourAdvance ==
    /\ pc = "hour"
    /\ LET hour == parse_field(hour_str, 0, 23)
       IN  /\ hour.ok
           /\ ~HourAccepts(hour, next)
    /\ Continue(NextHourStart(next))
    /\ Frame

HourMatch ==
    /\ pc = "hour"
    /\ LET hour == parse_field(hour_str, 0, 23)
       IN  /\ hour.ok
           /\ HourAccepts(hour, next)
    /\ pc' = "minute"
    /\ UNCHANGED <<next, result>>
    /\ Frame

\* Mutant of MinuteError: a malformed minute field is taken as accepting.
MinuteErrorSwallowed ==
    /\ pc = "minute"
    /\ ~parse_field(minute_str, 0, 59).ok
    /\ pc' = "dow"
    /\ UNCHANGED <<next, result>>
    /\ UNCHANGED <<cron, dt, fields, skipped, calls, link, prev, fvars>>

MinuteError ==
    /\ pc = "minute"
    /\ ~parse_field(minute_str, 0, 59).ok
    /\ Return(parse_field(minute_str, 0, 59))
    /\ UNCHANGED next
    /\ Frame

MinuteAdvance ==
    /\ pc = "minute"
    /\ LET minute == parse_field(minute_str, 0, 59)
       IN  /\ minute.ok
           /\ ~MinuteAccepts(minute, next)
    /\ next' = NextMinute(next)
    /\ pc' = "loop"
    /\ UNCHANGED result
    /\ Frame

MinuteMatch ==
    /\ pc = "minute"
    /\ LET minute == parse_field(minute_str, 0, 59)
       IN  /\ minute.ok
           /\ MinuteAccepts(minute, next)
    /\ pc' = "dow"
    /\ UNCHANGED <<next, result>>
    /\ Frame

DowError ==
    /\ pc = "dow"
    /\ ~parse_field(day_of_week_str, 0, 6).ok
    /\ Return(parse_field(day_of_week_str, 0, 6))
    /\ UNCHANGED next
    /\ Frame

DowAdvance ==
    /\ pc = "dow"
    /\ LET do_w == parse_field(day_of_week_str, 0, 6)
       IN  /\ do_w.ok
           /\ ~DowAccepts(do_w, next)
    /\ next' = NextWeekday(next)
    /\ pc' = "loop"
    /\ UNCHANGED result
    /\ Frame

DowMatch ==
    /\ pc = "dow"
    /\ LET do_w == parse_field(day_of_week_str, 0, 6)
       IN  /\ do_w.ok
           /\ DowAccepts(do_w, next)
    /\ pc' = "resolve"
    /\ UNCHANGED <<next, result>>
    /\ Frame

\* `tz.from_local_datetime(&next.naive_local())`
Resolved(n, tz) == from_local_datetime(tz, naive_local(n, "UTC"))

\* Mutant of AmbiguousChoice: the later instant.
AmbiguousLater(l) == l.later

\* The instant returned for a repeated civil time.
AmbiguousChoice(l) == l.earlier

ResolveSingle ==
    /\ pc = "resolve"
    /\ Resolved(next, dt.tz).kind = "Single"
    /\ Return(Ok([inst |-> Resolved(next, dt.tz).dt, tz |-> dt.tz]))
    /\ UNCHANGED next
    /\ Frame

ResolveAmbiguous ==
    /\ pc = "resolve"
    /\ Resolved(next, dt.tz).kind = "Ambiguous"
    /\ Return(Ok([inst |-> AmbiguousChoice(Resolved(next, dt.tz)), tz |-> dt.tz]))
    /\ UNCHANGED next
    /\ Frame

ResolveNone ==
    /\ pc = "resolve"
    /\ Resolved(next, dt.tz).kind = "None"
    /\ next' = AfterGap(next)
    /\ pc' = "loop"
    /\ skipped' = IF skipped = NoTime THEN next ELSE skipped
    /\ UNCHANGED <<cron, dt, fields, result, calls, link, prev, fvars>>

(***************************************************************************)
(* The caller.  Iterate calls parse again on its own result                *)
(* (tests.rs, test_next_100_iterations); Rezone calls it again with the    *)
(* same wall-clock reference in another zone (tests.rs, parse_tests).      *)
(***************************************************************************)
NewCall(d, how) ==
    /\ dt' = d
    /\ pc' = "call"
    /\ fields' = <<>>
    /\ next' = NoTime
    /\ result' = NoResult
    /\ skipped' = NoTime
    /\ calls' = calls + 1
    /\ link' = how
    /\ prev' = [dt |-> dt, result |-> result]
    /\ UNCHANGED <<cron, fvars>>

Iterate ==
    /\ pc = "done"
    /\ result.ok
    /\ calls < MaxCalls
    /\ link \in {"first", "iterate"}
    /\ NewCall(result.v, "iterate")

Rezone ==
    /\ pc = "done"
    /\ calls < MaxCalls
    /\ link = "first"
    /\ \E tz \in Zones \ {dt.tz} :
         \E u \in LocalInstants(tz, naive_local(dt.inst, dt.tz)) :
            NewCall([inst |-> u, tz |-> tz], "rezone")

Next ==
    \/ RejectFieldCount
    \/ Start
    \/ HorizonExceeded
    \/ MonthError
    \/ MonthAdvance
    \/ MonthMatch
    \/ DomError
    \/ DomAdvance
    \/ DomMatch
    \/ HourError
    \/ HourAdvance
    \/ HourMatch
    \/ MinuteError
    \/ MinuteAdvance
    \/ MinuteMatch
    \/ DowError
    \/ DowAdvance
    \/ DowMatch
    \/ ResolveSingle
    \/ ResolveAmbiguous
    \/ ResolveNone
    \/ Iterate
    \/ Rezone

Spec == Init /\ [][Next]_vars

(***************************************************************************)
(* parse_field, lines 282-378, step by step: one call                      *)
(* parse_field(field, fmin, fmax) at a time, one action per arm of the     *)
(* match on a segment.  The inputs are the field texts and bounds of the   *)
(* tests (tests.rs, parse_field_tests and the tests after them).           *)
(***************************************************************************)
\* The bounds of the five fields of an expression, and [0, 0].
Bounds == {<<0, 59>>, <<0, 23>>, <<1, 31>>, <<1, 12>>, <<0, 6>>, <<0, 0>>}

FieldTexts ==
    { Chars(c) : c \in {
        "*", "*/5", "*/30", "*/1", "*/0", "*/60", "*/Wed", "*/2-5",
        "*/5/2", "*/*/5", "*/+5", "**", "*,5",
        "0", "6", "12", "31", "60", "9999",
        "5-10", "8-5", "5-60", "13-25", "1-2-3", "3-3",
        "Mon-Fri", "Sat-Sun", "Sun-Wed", "1-Sat",
        "1/6", "6/1", "1/60", "12-18/2", "5-40/3", "1-10/0", "20-10/2",
        "1-2-3/5", "1/2/3", "Sun/2", "Mon-Fri/2", "3/x",
        "Sun", "sun", "mon", "Mon", "MON", "mOn", "tue", "Wed", "THU", "fri",
        "Sat", "Monday", "InvalidDay", "Su", "x",
        "15,30,45,0", "1,1,1,1,2", "1-8,11", "2-3,*/15", "*/30,40-45,57",
        "0,Mon,5,Fri", "1,Mon", ",,,", "1,,,2", "", ",5", "5,",
        "40,50,60", "60,40,50", "40,60,50", "1,x,2", "3,8-5", "2,*/0",
        "2,1/0,3" } }
    \cup { <<LongS, "u", "n">>, <<"f", "r", DotlessI>> }

\* The calls parse_field(field, min, max) the model starts from.
FieldCases == FieldTexts \X Bounds

\* No call of parse is under way.
ParseIdle ==
    /\ cron = <<>>
    /\ dt = NoPrev.dt
    /\ pc = "idle"
    /\ fields = <<>>
    /\ next = NoTime
    /\ result = NoResult
    /\ skipped = NoTime
    /\ calls = 0
    /\ link = "first"
    /\ prev = NoPrev

FieldInit ==
    /\ ParseIdle
    /\ \E c \in FieldCases : field = c[1] /\ fmin = c[2][1] /\ fmax = c[2][2]
    /\ segments = <<>>
    /\ values = {}
    /\ answer = NoResult
    /\ fpc = "call"
    /\ fcalls = 1
    /\ flink = "first"
    /\ fprev = NoFieldPrev

FieldFrame == UNCHANGED <<pvars, field, fmin, fmax, fcalls, flink, fprev>>

\* `let fields = field.split(',').filter(|s| !s.is_empty()).collect()`
SplitField ==
    /\ fpc = "call"
    /\ segments' = NonEmpty(split(field, ","))
    /\ values' = {}
    /\ fpc' = "loop"
    /\ UNCHANGED answer
    /\ FieldFrame

\* Mutant of Insert: the values of a segment replace those of the segments
\* before it.
InsertReplacing(r) ==
    IF r.ok
    THEN /\ values' = r.v
         /\ segments' = Tail(segments)
         /\ UNCHANGED <<answer, fpc>>
    ELSE /\ answer' = r
         /\ fpc' = "done"
         /\ UNCHANGED <<values, segments>>

\* Mutant of Insert: a segment in error is passed over.
InsertSkipping(r) ==
    /\ values' = IF r.ok THEN values \cup r.v ELSE values
    /\ segments' = Tail(segments)
    /\ UNCHANGED <<answer, fpc>>

\* One turn of `for field in fields`: the values of the segment are inserted,
\* or its error is returned (`?`, `return Err(...)`).
Insert(r) ==
    IF r.ok
    THEN /\ values' = values \cup r.v
         /\ segments' = Tail(segments)
         /\ UNCHANGED <<answer, fpc>>
    ELSE /\ answer' = r
         /\ fpc' = "done"
         /\ UNCHANGED <<values, segments>>

\* The segment at hand.
AtSegment == fpc = "loop" /\ segments # <<>>
segment == Head(segments)

\* "*" => ...
StarArm ==
    /\ AtSegment
    /\ segment = <<"*">>
    /\ Insert(Ok(fmin..fmax))
    /\ FieldFrame

\* f if f.starts_with("*/") => ...
StarStepArm ==
    /\ AtSegment
    /\ segment # <<"*">>
    /\ starts_with(segment, <<"*", "/">>)
    /\ Insert(StarStep(StepOk(parse_u32(trim_start_matches(segment, <<"*", "/">>)),
                              fmax), fmin, fmax))
    /\ FieldFrame

\* f if f.contains('/') => ...
RangeStepArm ==
    /\ AtSegment
    /\ segment # <<"*">>
    /\ ~starts_with(segment, <<"*", "/">>)
    /\ contains(segment, "/")
    /\ Insert(StepOfParts(split(segment, "/"), fmin, fmax))
    /\ FieldFrame

\* f if f.contains('-') => ...
RangeArm ==
    /\ AtSegment
    /\ segment # <<"*">>
    /\ ~starts_with(segment, <<"*", "/">>)
    /\ ~contains(segment, "/")
    /\ contains(segment, "-")
    /\ Insert(RangeOfParts(split(segment, "-"), 1, fmin, fmax))
    /\ FieldFrame

\* _ => ...
ValueArm ==
    /\ AtSegment
    /\ segment # <<"*">>
    /\ ~starts_with(segment, <<"*", "/">>)
    /\ ~contains(segment, "/")
    /\ ~contains(segment, "-")
    /\ Insert(SingleValue(parse_cron_value(segment, fmin, fmax)))
    /\ FieldFrame

\* Ok(values), after the last segment.
ReturnValues ==
    /\ fpc = "loop"
    /\ segments = <<>>
    /\ answer' = Ok(values)
    /\ fpc' = "done"
    /\ UNCHANGED <<values, segments>>
    /\ FieldFrame

(***************************************************************************)
(* The callers of parse_field: the same segments in another order, and the *)
(* same field in upper case (tests.rs, test_case_insensitive_dow).         *)
(***************************************************************************)
\* The pieces joined by commas again.
RECURSIVE Join(_)
Join(ss) ==
    IF ss = <<>> THEN <<>>
    ELSE IF Len(ss) = 1 THEN ss[1]
    ELSE ss[1] \o <<",">> \o Join(Tail(ss))

Reverse(ss) == [k \in 1..Len(ss) |-> ss[Len(ss) + 1 - k]]
Rotate(ss) == IF ss = <<>> THEN ss ELSE Tail(ss) \o <<Head(ss)>>

NewFieldCall(f, how) ==
    /\ field' = f
    /\ segments' = <<>>
    /\ values' = {}
    /\ answer' = NoResult
    /\ fpc' = "call"
    /\ fcalls' = fcalls + 1
    /\ flink' = how
    /\ fprev' = [field |-> field, answer |-> answer]
    /\ UNCHANGED <<pvars, fmin, fmax>>

Reorder ==
    /\ fpc = "done"
    /\ fcalls < MaxCalls
    /\ flink = "first"
    /\ \E f \in {Join(Reverse(split(field, ","))), Join(Rotate(split(field, ",")))} :
          /\ f # field
          /\ NewFieldCall(f, "reorder")

Recase ==
    /\ fpc = "done"
    /\ fcalls < MaxCalls
    /\ flink = "first"
    /\ to_uppercase(field) # field
    /\ NewFieldCall(to_uppercase(field), "recase")

FieldNext ==
    \/ SplitField
    \/ StarArm
    \/ StarStepArm
    \/ RangeStepArm
    \/ RangeArm
    \/ ValueArm
    \/ ReturnValues
    \/ Reorder
    \/ Recase

FieldSpec == FieldInit /\ [][FieldNext]_vars

(***************************************************************************)
(* Vocabulary of the properties.                                           *)
(***************************************************************************)
\* The civil time of the reference, and its minute.
RefCivil == naive_local(dt.inst, dt.tz)
RefMinute == RefCivil - SecondOf(RefCivil)

\* parse returned Ok; the civil time of the instant it returned.
Returned == pc = "done" /\ result.ok
ResCivil == naive_local(result.v.inst, result.v.tz)

\* The civil time t exists in zone tz.
ExistsIn(tz, t) == LocalInstants(tz, t) # {}

\* The five sets of the expression accept the civil time t.
FieldsAccept(t) ==
    /\ MonthOf(t) \in parse_field(month_str, 1, 12).v
    /\ DayOf(t) \in parse_field(day_of_month_str, 1, 31).v
    /\ HourOf(t) \in parse_field(hour_str, 0, 23).v
    /\ MinuteOf(t) \in parse_field(minute_str, 0, 59).v
    /\ WeekdayOf(t) \in parse_field(day_of_week_str, 0, 6).v

\* Some civil minute strictly between lo and hi exists in zone tz and is
\* accepted by the five sets.  The days are tried first: month, day of month
\* and weekday are those of the day.
MatchBetween(lo, hi, tz) ==
    \E day \in (lo \div SecsPerDay)..(hi \div SecsPerDay) :
        /\ MonthOf(day * SecsPerDay) \in parse_field(month_str, 1, 12).v
        /\ DayOf(day * SecsPerDay) \in parse_field(day_of_month_str, 1, 31).v
        /\ WeekdayOf(day * SecsPerDay) \in parse_field(day_of_week_str, 0, 6).v
        /\ \E h \in parse_field(hour_str, 0, 23).v :
             \E mi \in parse_field(minute_str, 0, 59).v :
                LET t == day * SecsPerDay + h * SecsPerHour + mi * SecsPerMinute
                IN  lo < t /\ t < hi /\ ExistsIn(tz, t)

(***************************************************************************)
(* C1.  Whenever parse returns Ok(t), t is strictly later than the         *)
(* reference instant.                                                      *)
(***************************************************************************)
C1_StrictlyLater == Returned => result.v.inst > dt.inst

(***************************************************************************)
(* C2.  Whenever parse returns Ok(t), no civil minute strictly after the   *)
(* reference's minute and strictly before the civil time of t exists in    *)
(* the zone and is accepted by the five sets: t is the earliest match.     *)
(***************************************************************************)
C2_EarliestMatch == Returned => ~MatchBetween(RefMinute, ResCivil, dt.tz)

(***************************************************************************)
(* C3.  Whenever parse returns Ok(t), the civil time of t has second 0 and *)
(* is accepted by all five sets at once (day of month AND day of week).    *)
(***************************************************************************)
C3_SatisfiesAllFields ==
    Returned => SecondOf(ResCivil) = 0 /\ FieldsAccept(ResCivil)

\* Witness: a result of an expression restricting day of month and weekday.
C3_Witness ==
    /\ Returned
    /\ cron = Chars("0 0 29 2 6")
    /\ DayOf(ResCivil) = 29 /\ WeekdayOf(ResCivil) = 6

(***************************************************************************)
(* C4.  Every call of parse terminates: each turn of the search loop       *)
(* either returns or moves the candidate strictly forward, and it moves    *)
(* only a candidate that lies within the horizon, so the turns of one call *)
(* are bounded and the loop reaches a terminal outcome.                    *)
(***************************************************************************)
InSearch == pc \in {"loop", "dom", "hour", "minute", "dow", "resolve"}

YearsAhead(t) == YearOf(t) - YearOf(naive_local(dt.inst, dt.tz))

\* A step of the search either returns, or goes on to the next test of the
\* same candidate, or comes back to the top of the loop with a later
\* candidate, the earlier one being within the horizon.
LoopAdvances ==
    InSearch =>
        \/ pc' = "done" /\ result' # NoResult
        \/ pc' \notin {"loop", "done", "call", pc} /\ next' = next
        \/ pc' = "loop" /\ next' > next /\ YearsAhead(next) <= HorizonYears

C4_Terminates == [][LoopAdvances]_vars

\* Witness: the search of a calendar-impossible expression (February 30)
\* has ended, by the horizon, after the candidate moved.
C4_Witness ==
    /\ pc = "done"
    /\ cron = Chars("0 0 30 2 *")
    /\ result = Err("InvalidCron")
    /\ YearsAhead(next) > HorizonYears

(***************************************************************************)
(* C5.  The horizon is enforced on every turn of the loop before a         *)
(* candidate can be accepted: a candidate under test and a returned time   *)
(* lie at most 4 calendar years after the reference's civil year, and a    *)
(* candidate beyond that ends the call with the horizon error.             *)
(***************************************************************************)
C5_HorizonEnforced ==
    /\ pc \in {"dom", "hour", "minute", "dow", "resolve"} => YearsAhead(next) <= HorizonYears
    /\ Returned => YearsAhead(ResCivil) <= HorizonYears
    /\ (pc = "done" /\ next # NoTime /\ YearsAhead(next) > HorizonYears)
          => result = Err("InvalidCron")

\* Witness: Feb 29 on a Thursday asked in 2019: the only match before 2030 is
\* 2024-02-29, five calendar years ahead, and the call ends with the error.
C5_Witness ==
    /\ pc = "done"
    /\ cron = Chars("0 0 29 2 4")
    /\ YearOf(RefCivil) = 2019
    /\ result = Err("InvalidCron")
    /\ YearsAhead(next) = HorizonYears + 1

(***************************************************************************)
(* C6.  parse accepts an expression only if it holds exactly five fields   *)
(* separated by runs of whitespace; with any other count it returns the    *)
(* syntax error before a field is parsed, malformed fields or not.         *)
(***************************************************************************)
\* The number of fields of s: the positions where a run of non-whitespace
\* characters starts.
FieldStarts(s) ==
    {i \in 1..Len(s) : s[i] \notin Whitespace /\ (i = 1 \/ s[i - 1] \in Whitespace)}

C6_FiveFields ==
    /\ (pc # "call" /\ Cardinality(FieldStarts(cron)) # 5)
          => pc = "done" /\ result = Err("InvalidCron") /\ next = NoTime
    /\ (pc # "call" /\ Cardinality(FieldStarts(cron)) = 5)
          => Len(fields) = 5 /\ (pc = "done" => next # NoTime)

\* Witness: three fields, the first of them malformed, end in the syntax
\* error; five fields separated by runs of blanks and tabs are searched.
C6_Witness ==
    \/ /\ pc = "done"
       /\ cron = Chars("60 * *")
       /\ result = Err("InvalidCron")
    \/ /\ Returned
       /\ cron = Chars("\t*/5   * * *\t* ")

(***************************************************************************)
(* C7.  DST gap: a candidate that the five sets accept and the zone skips  *)
(* is not returned and is not an error; the candidate moves on by one      *)
(* minute through the loop, and a value finally returned exists in the     *)
(* zone, is accepted by the five sets, and is the next such minute after   *)
(* the skipped one.  When no such minute lies within the horizon the call  *)
(* ends with the horizon error.                                            *)
(***************************************************************************)
SkippedOne == pc = "done" /\ skipped # NoTime

NextAfterSkipped ==
    /\ ExistsIn(dt.tz, ResCivil)
    /\ FieldsAccept(ResCivil)
    /\ ResCivil > skipped
    /\ ~MatchBetween(skipped, ResCivil, dt.tz)

C7_GapSkipped ==
    SkippedOne =>
        /\ ~ExistsIn(dt.tz, skipped)
        /\ FieldsAccept(skipped)
        /\ IF result.ok THEN NextAfterSkipped
           ELSE /\ result = Err("InvalidCron")
                /\ YearsAhead(next) > HorizonYears
                /\ ~MatchBetween(skipped, next, dt.tz)

\* C7 as stated: after a skipped candidate parse does not fail.
C7_GapNeverFails ==
    SkippedOne => result.ok /\ NextAfterSkipped

\* Witness: 02:30 on the day of the spring-forward transition was skipped
\* and 02:30 of the next day returned.
C7_Witness ==
    /\ SkippedOne
    /\ Returned
    /\ cron = Chars("30 2 * * *")
    /\ HourOf(skipped) = 2 /\ MinuteOf(skipped) = 30
    /\ ResCivil = skipped + SecsPerDay

(***************************************************************************)
(* C8.  DST ambiguity: of the two instants of a repeated civil time parse  *)
(* returns the earlier; the later one is never returned.                   *)
(***************************************************************************)
C8_EarlierOfTwo ==
    Returned => \A u \in LocalInstants(dt.tz, ResCivil) : result.v.inst <= u

\* Witness: a returned civil time that two instants of the zone read.
C8_Witness ==
    /\ Returned
    /\ Cardinality(LocalInstants(dt.tz, ResCivil)) = 2

(***************************************************************************)
(* C9.  Timezone invariance: for one expression and one wall-clock         *)
(* reference taken in two zones, the results have the same civil time, and *)
(* the instants differ by the difference of the zones' offsets, provided   *)
(* the civil time returned in each zone exists in the other zone too.      *)
(***************************************************************************)
BothReturned == Returned /\ link = "rezone" /\ prev.result.ok
PrevCivil == naive_local(prev.result.v.inst, prev.result.v.tz)

SameWallClock ==
    /\ ResCivil = PrevCivil
    /\ result.v.inst - prev.result.v.inst
          = OffsetAt(prev.dt.tz, prev.result.v.inst) - OffsetAt(dt.tz, result.v.inst)

C9_ZoneInvariant ==
    (BothReturned /\ ExistsIn(dt.tz, PrevCivil) /\ ExistsIn(prev.dt.tz, ResCivil))
        => SameWallClock

\* C9 as stated: the same civil time in any two zones.
C9_SameCivilAlways == BothReturned => SameWallClock

\* Witness: the same wall-clock result in two zones of different offsets.
C9_Witness ==
    /\ BothReturned
    /\ ResCivil = PrevCivil
    /\ result.v.inst # prev.result.v.inst

(***************************************************************************)
(* C10.  Iterating parse on its own result in UTC enumerates the schedule  *)
(* in order: each result is strictly later than the one before, is         *)
(* accepted by the five sets, and no accepted civil minute lies strictly   *)
(* between the two; for `0 23 */2 * *` two results inside one month are    *)
(* exactly two days apart, at 23:00.                                       *)
(***************************************************************************)
Iterated == Returned /\ link = "iterate" /\ dt.tz = "UTC"

C10_IterationInOrder ==
    Iterated =>
        /\ result.v.inst > dt.inst
        /\ FieldsAccept(ResCivil)
        /\ ~MatchBetween(RefCivil, ResCivil, "UTC")
        /\ (cron = Chars("0 23 */2 * *") /\ MonthOf(ResCivil) = MonthOf(RefCivil))
              => /\ ResCivil - RefCivil = 2 * SecsPerDay
                 /\ HourOf(ResCivil) = 23 /\ MinuteOf(ResCivil) = 0

\* Witness: 2019-11-09 23:00 followed by 2019-11-11 23:00.
C10_Witness ==
    /\ Iterated
    /\ cron = Chars("0 23 */2 * *")
    /\ dt.inst = 1573340400
    /\ result.v.inst = 1573340400 + 2 * SecsPerDay

(***************************************************************************)
(* Vocabulary of the properties of parse_field.                            *)
(***************************************************************************)
\* parse_field returned, and returned Ok.
FieldDone == fpc = "done"
FieldReturned == fpc = "done" /\ answer.ok

\* The field is one comma segment.
OneSegment == field # <<>> /\ ~contains(field, ",")

\* C11: whenever parse_field returns Ok(S), every member of S lies in
\* [min, max], whatever the form of the segments (weekday names included) and
\* whatever the bounds.
C11_ValuesInBounds == FieldReturned => answer.v \subseteq fmin..fmax

\* A numeric literal: decimal digits, with an optional sign "+".
Unsigned(s) == IF s # <<>> /\ s[1] = "+" THEN Tail(s) ELSE s
NumericLiteral(s) ==
    /\ Unsigned(s) # <<>>
    /\ \A i \in 1..Len(Unsigned(s)) : IsDigit(Unsigned(s)[i])
LiteralValue(s) ==
    DigitsValue([i \in 1..Len(Unsigned(s)) |-> DigitValue(Unsigned(s)[i])],
                Len(Unsigned(s)))

\* {a + k*n : k >= 0, a + k*n <= b}
MultiplesFrom(a, b, n) == {x \in a..b : \E k \in 0..b : x = a + k * n}

\* The text N of a field `*/N`.
StepText == SubSeq(field, 3, Len(field))
IsStarSlash == OneSegment /\ starts_with(field, <<"*", "/">>)

\* C12: "*" yields exactly {min..max}; "*/N" yields exactly the values
\* min + k*N up to max, and fails when N is 0, N > max or N is not a numeric
\* literal.
C12_StarAndStarStep ==
    FieldDone =>
        /\ field = <<"*">> => answer = Ok(fmin..fmax)
        /\ IsStarSlash /\ ~NumericLiteral(StepText) => ~answer.ok
        /\ IsStarSlash /\ NumericLiteral(StepText) =>
              IF LiteralValue(StepText) = 0 \/ LiteralValue(StepText) > fmax
              THEN ~answer.ok
              ELSE answer = Ok(MultiplesFrom(fmin, fmax, LiteralValue(StepText)))

\* The lower-case letter of an upper-case letter.
LowerOf(c) == Lower[CHOOSE i \in 1..26 : Upper[i] = c]

\* s is the d-th weekday name (1 = SUN) in some capitalisation.
IsNameOf(s, d) ==
    /\ Len(s) = 3
    /\ \A i \in 1..3 : s[i] \in {DowNames[d][i], LowerOf(DowNames[d][i])}
IsWeekdayName(s) == \E d \in 1..7 : IsNameOf(s, d)

\* An operand of a range: a numeric literal or a weekday name, and its value.
IsOperand(s) == NumericLiteral(s) \/ IsWeekdayName(s)
OperandValue(s) ==
    IF IsWeekdayName(s) THEN (CHOOSE d \in 1..7 : IsNameOf(s, d)) - 1
    ELSE LiteralValue(s)

\* The field is one segment `a-b`, and its operands.
RangeOperands == split(field, "-")
IsRange ==
    /\ OneSegment
    /\ ~contains(field, "/")
    /\ Len(RangeOperands) = 2
    /\ IsOperand(RangeOperands[1])
    /\ IsOperand(RangeOperands[2])
RangeStart == OperandValue(RangeOperands[1])
RangeEnd == OperandValue(RangeOperands[2])

\* C13: a single segment `a-b` (numbers or weekday names) yields exactly
\* {a..b} when min <= a <= b <= max, and fails when a > b, b > max, or an
\* operand is below min.
C13_RangeExact ==
    FieldDone /\ IsRange =>
        IF fmin <= RangeStart /\ RangeStart <= RangeEnd /\ RangeEnd <= fmax
        THEN answer = Ok(RangeStart..RangeEnd)
        ELSE ~answer.ok

\* The field is one stepped segment `start/step` or `start-end/step`: its
\* parts, the operands of its range part and its step.
StepParts == split(field, "/")
StepOperands == split(StepParts[1], "-")
IsStepped ==
    /\ OneSegment
    /\ ~starts_with(field, <<"*", "/">>)
    /\ Len(StepParts) = 2
    /\ NumericLiteral(StepParts[2])
    /\ Len(StepOperands) \in {1, 2}
    /\ \A k \in 1..Len(StepOperands) : IsOperand(StepOperands[k])
SteppedStep == LiteralValue(StepParts[2])
SteppedStart == OperandValue(StepOperands[1])
HasEnd == Len(StepOperands) = 2
SteppedEnd == OperandValue(StepOperands[2])

\* C14: `start/step` yields exactly start + k*step up to max, and
\* `start-end/step` exactly start + k*step up to end; the call fails when
\* step is 0 or step > max, when start > end, or when start or end lies
\* outside [min, max].
C14_SteppedExact ==
    FieldDone /\ IsStepped =>
        IF /\ SteppedStep >= 1 /\ SteppedStep <= fmax
           /\ SteppedStart \in fmin..fmax
           /\ HasEnd => (SteppedEnd \in fmin..fmax /\ SteppedStart <= SteppedEnd)
        THEN answer = Ok(MultiplesFrom(SteppedStart,
                                       IF HasEnd THEN SteppedEnd ELSE fmax,
                                       SteppedStep))
        ELSE ~answer.ok

\* The comma-separated pieces of the field, and the places of the non-empty
\* ones: its segments.
FieldPieces == split(field, ",")
SegmentPlaces == {k \in 1..Len(FieldPieces) : FieldPieces[k] # <<>>}
\* The set of one segment: what parse_field returns for the segment alone.
SegmentSet(k) == parse_field(FieldPieces[k], fmin, fmax)
AllSegmentsValid == \A k \in SegmentPlaces : SegmentSet(k).ok

\* C15: when every non-empty segment of a comma-separated field is valid, the
\* call returns the union of the sets of its segments: empty segments add
\* nothing and cause no error (only commas: the empty set), and the same
\* segments in another order give the same set.
C15_UnionOfSegments ==
    FieldDone /\ AllSegmentsValid =>
        /\ answer = Ok(UNION {SegmentSet(k).v : k \in SegmentPlaces})
        /\ flink = "reorder" => answer = fprev.answer

\* A field with an empty segment and two segments of different sets was
\* parsed again in another order.
C15_Witness ==
    /\ FieldReturned
    /\ flink = "reorder"
    /\ Len(FieldPieces) > Cardinality(SegmentPlaces)
    /\ \E j, k \in SegmentPlaces : SegmentSet(j).v # SegmentSet(k).v

\* The number of occurrences of the character c in s.
Count(s, c) == Cardinality({i \in 1..Len(s) : s[i] = c})

\* C16: a field with a comma segment that holds more than one "/" or more
\* than one "-" never yields Ok, whatever the bounds.
C16_RepeatedSeparatorRejected ==
    FieldDone /\ (\E k \in SegmentPlaces :
                     Count(FieldPieces[k], "/") > 1 \/ Count(FieldPieces[k], "-") > 1)
        => ~answer.ok

\* The invalid segments the claim names, by their text.
\* A numeric literal outside [min, max].
LiteralOutOfBounds(s) == NumericLiteral(s) /\ LiteralValue(s) \notin fmin..fmax
\* A range `a-b` of two operands with a > b.
ReversedRange(s) ==
    /\ ~contains(s, "/")
    /\ Len(split(s, "-")) = 2
    /\ IsOperand(split(s, "-")[1])
    /\ IsOperand(split(s, "-")[2])
    /\ OperandValue(split(s, "-")[1]) > OperandValue(split(s, "-")[2])
\* A step that is not a numeric literal, is 0 or is greater than max.
BadStepText(t) ==
    \/ ~NumericLiteral(t)
    \/ NumericLiteral(t) /\ (LiteralValue(t) = 0 \/ LiteralValue(t) > fmax)
BadStep(s) == Count(s, "/") = 1 /\ BadStepText(split(s, "/")[2])
\* A token that is neither a number nor a weekday name (which tokens are
\* weekday names is the matter of C18: here, those Dow::from_str resolves).
UnknownToken(s) ==
    /\ \A i \in 1..Len(s) : s[i] \notin {"*", "/", "-"}
    /\ ~NumericLiteral(s)
    /\ ~Dow_from_str(s).ok
InvalidSegment(s) ==
    LiteralOutOfBounds(s) \/ ReversedRange(s) \/ BadStep(s) \/ UnknownToken(s)

IsToken(s) == s # <<>> /\ \A i \in 1..Len(s) : s[i] \notin {"*", "/", "-", ","}

\* C18: a token that is one of sun, mon, tue, wed, thu, fri, sat in any
\* capitalisation resolves to 0..6, the same in every capitalisation; in a
\* list of the day-of-week field a name counts as its number; every other
\* token that is not a number is a parse error.
C18_ClosedNameSet ==
    FieldDone =>
        /\ IsToken(field) /\ IsWeekdayName(field)
              => answer = Ok({OperandValue(field)})
        /\ IsToken(field) /\ ~IsWeekdayName(field) /\ ~NumericLiteral(field)
              => ~answer.ok
        /\ flink = "recase" /\ IsToken(fprev.field) /\ IsWeekdayName(fprev.field)
              => answer = fprev.answer
        /\ (fmin = 0 /\ fmax = 6
              /\ \A k \in SegmentPlaces :
                    /\ IsOperand(FieldPieces[k])
                    /\ OperandValue(FieldPieces[k]) \in 0..6)
              => answer = Ok({OperandValue(FieldPieces[k]) : k \in SegmentPlaces})

\* The step of a field `*/N`, `start/N` or `start-end/N` is 0 or exceeds max.
StepOutOfBounds ==
    \/ /\ IsStarSlash
       /\ NumericLiteral(StepText)
       /\ (LiteralValue(StepText) = 0 \/ LiteralValue(StepText) > fmax)
    \/ IsStepped /\ (SteppedStep = 0 \/ SteppedStep > fmax)

\* C19: a range `a-b` fails with the Range error both when a > b and when b
\* exceeds max; a bare literal outside [min, max] and a step that is 0 or
\* greater than max fail with the Value error.
C19_ErrorKinds ==
    FieldDone =>
        /\ IsRange /\ (RangeStart > RangeEnd \/ RangeEnd > fmax)
              => answer = Err("InvalidRange")
        /\ OneSegment /\ LiteralOutOfBounds(field) => answer = Err("InvalidValue")
        /\ StepOutOfBounds => answer = Err("InvalidValue")

\* The call ended at the horizon test: the fields were five and the candidate
\* at hand is past the horizon.
HorizonFailed ==
    /\ pc = "done"
    /\ ~result.ok
    /\ FieldCountOk(fields)
    /\ next # NoTime
    /\ HorizonPassed(next, dt)

\* C20: the error parse returns when no candidate is found within the horizon
\* differs from the error it returns for a wrong field count.
C20_HorizonErrorDistinct == HorizonFailed => result # WrongFieldCount

(***************************************************************************)
(* C21.  In each turn of the search the fields are parsed and tested in    *)
(* the order month, day of month, hour, minute, day of week, a field only  *)
(* after all fields before it accepted the candidate at hand, and after    *)
(* any advance the tests start again from the month.  So a malformed month *)
(* field fails the call with its parse error in the first turn, and when   *)
(* several fields are malformed the error is that of the first malformed   *)
(* field in this order.                                                    *)
(***************************************************************************)
\* The places in `fields` of the fields in the order of their tests, the
\* bounds of the field at each place, and the position of the loop before and
\* after each test.
TestOrder == <<4, 3, 2, 1, 5>>
FieldBounds == <<<<0, 59>>, <<0, 23>>, <<1, 31>>, <<1, 12>>, <<0, 6>>>>
Stage == <<"loop", "dom", "hour", "minute", "dow", "resolve">>

\* parse_field on the field at place k, and the part of the civil time t the
\* field is about.
Parsed(k) == parse_field(fields[k], FieldBounds[k][1], FieldBounds[k][2])
PartOf(k, t) ==
    CASE k = 1 -> MinuteOf(t)
      [] k = 2 -> HourOf(t)
      [] k = 3 -> DayOf(t)
      [] k = 4 -> MonthOf(t)
      [] k = 5 -> WeekdayOf(t)

\* At the j-th test and after it, the fields before it in the order parsed
\* and accepted the candidate.
TestedInOrder ==
    \A j \in 1..5 :
        pc = Stage[j + 1] =>
            \A i \in 1..j :
                /\ Parsed(TestOrder[i]).ok
                /\ PartOf(TestOrder[i], next) \in Parsed(TestOrder[i]).v

\* The call ended with the parse error of a field.
FieldFailed ==
    /\ pc = "done"
    /\ ~result.ok
    /\ FieldCountOk(fields)
    /\ next # NoTime
    /\ ~HorizonPassed(next, dt)

FirstMalformedFails ==
    FieldFailed =>
        \E j \in 1..5 :
            /\ ~Parsed(TestOrder[j]).ok
            /\ \A i \in 1..(j - 1) : Parsed(TestOrder[i]).ok
            /\ result = Parsed(TestOrder[j])

MalformedMonthFailsAtOnce ==
    (pc = "done" /\ FieldCountOk(fields) /\ ~Parsed(4).ok) =>
        /\ result = Parsed(4)
        /\ next = StartCandidate(dt).v

\* A step that moves the candidate goes back to the test of the month.
RestartsFromMonth == (InSearch /\ next' # next) => pc' = "loop"

C21_FixedOrder ==
    /\ [](TestedInOrder /\ FirstMalformedFails /\ MalformedMonthFailsAtOnce)
    /\ [][RestartsFromMonth]_vars

\* Witness: of three malformed fields with three different errors (day of
\* month 8-5, minute 60, day of week x) the call returned that of the day of
\* month.
C21_Witness ==
    /\ FieldFailed
    /\ cron = Chars("60 * 8-5 * x")
    /\ result = Err("InvalidRange")
    /\ Parsed(1) = Err("InvalidValue")
    /\ Parsed(5) = Err("ParseIntError")

(***************************************************************************)
(* C22.  If one of the five fields is malformed, parse never returns Ok,   *)
(* whatever the reference and the other fields: the call ends in an error, *)
(* the parse error of a malformed field or the horizon error; and a        *)
(* success means all five fields parsed.                                   *)
(***************************************************************************)
Malformed == {k \in 1..5 : ~Parsed(k).ok}

\* A call on five fields, one of them malformed, has ended.
EndedMalformed == pc = "done" /\ FieldCountOk(fields) /\ Malformed # {}

\* As stated: the error is the parse error of the malformed field, whichever
\* of the malformed fields is taken, or the horizon error.
C22_OnlyThatFieldsError ==
    EndedMalformed =>
        /\ ~result.ok
        /\ \A k \in Malformed : result \in {Parsed(k), HorizonError}

\* Amended: the error is the parse error of one of the malformed fields, or
\* the horizon error.
C22_MalformedNeverOk ==
    /\ EndedMalformed =>
          /\ ~result.ok
          /\ result \in {Parsed(k) : k \in Malformed} \cup {HorizonError}
    /\ Returned => Malformed = {}

\* Witness: a malformed minute field that is never reached, February 30
\* being searched for in vain: the call ended with the horizon error.
C22_Witness ==
    /\ EndedMalformed
    /\ cron = Chars("60 * 30 2 *")
    /\ HorizonPassed(next, dt)
    /\ result = HorizonError

(***************************************************************************)
(* C23.  Completeness within the horizon: if all five fields parse and     *)
(* some civil minute strictly after the reference civil time, of a civil   *)
(* year at most the reference's year + 4, exists in the timezone and is    *)
(* accepted by all five fields, then parse returns Ok; the horizon error   *)
(* is returned only when there is no such minute.                          *)
(***************************************************************************)
\* The first instant after the horizon: January 1 of the fifth year after the
\* reference's civil year.
HorizonEnd ==
    make_utc_datetime(YearOf(RefCivil) + HorizonYears + 1, 1, 1, 0, 0, 0).v

\* A call on five well-formed fields has ended.
EndedWellFormed == pc = "done" /\ FieldCountOk(fields) /\ Malformed = {}

C23_CompleteWithinHorizon ==
    /\ (EndedWellFormed /\ MatchBetween(RefMinute, HorizonEnd, dt.tz)) => result.ok
    /\ (EndedWellFormed /\ ~result.ok) =>
          /\ result = HorizonError
          /\ ~MatchBetween(RefMinute, HorizonEnd, dt.tz)

====
